---- MODULE Spec2Model ----
(***************************************************************************)
(* The city base classes of invisible_cities/cities/base_cities.py:        *)
(* City, DeconvolutionCity, CalibratedCity and PmapCity, as one object     *)
(* `self` of the most derived class (PmapCity), its setters, its stage     *)
(* methods and the calls these make to the numeric primitives.             *)
(***************************************************************************)
EXTENDS Integers, Sequences, FiniteSets

VARIABLES
    self,    \* the attributes of the PmapCity object
    given,   \* history: the parameter values most recently handed to the
             \* constructor or to a setter, per parameter
    last,    \* the last method call: its name, arguments, the primitive
             \* calls it made, and what it returned or raised
    raw,     \* per event, the waveforms of the event
    done,    \* per event, the stages completed for it
    out      \* per event and stage, the record of the stage call made for it

events == <<raw, done, out>>
vars   == <<self, given, last, raw, done, out>>

----------------------------------------------------------------------------
(* Values *)

\* Python's None, for the file names and for the peak search parameters.
NoFile == "None"
None   == [none |-> TRUE]

\* S12Params = namedtuple('S12Params', 'tmin tmax stride lmin lmax rebin'):
\* a plain record, built from any six values.
S12Params(tmin, tmax, stride, lmin, lmax, rebin) ==
    [tmin |-> tmin, tmax |-> tmax, stride |-> stride,
     lmin |-> lmin, lmax |-> lmax, rebin  |-> rebin]

\* namedtuple._asdict(): defined on a namedtuple, an AttributeError on None.
HasAsdict(p) == p # None

Abs(x) == IF x < 0 THEN -x ELSE x

\* abs(array): the absolute value of every entry.
AbsArray(a) == [i \in DOMAIN a |-> Abs(a[i])]

----------------------------------------------------------------------------
(* The calibration database, load_db.DataPMT / load_db.DataSiPM *)

\* The snapshot a run number selects; gains of either sign and zero occur.
Database(run_number) ==
    CASE run_number = -5 ->
           [pmt_adc_to_pes |-> <<-2, 3>>, sipm_adc_to_pes |-> <<4, 5>>,
            coeff_c |-> <<1, 2>>, coeff_blr |-> <<3, 4>>,
            noise_rms |-> <<1, 1>>, X |-> <<-1, 1>>, Y |-> <<0, 2>>]
      [] run_number = 0 ->
           [pmt_adc_to_pes |-> <<0, 1>>, sipm_adc_to_pes |-> <<-4, 5>>,
            coeff_c |-> <<-1, 2>>, coeff_blr |-> <<3, -4>>,
            noise_rms |-> <<2, 1>>, X |-> <<-1, 1>>, Y |-> <<0, 2>>]
      [] OTHER ->
           [pmt_adc_to_pes |-> <<2, -1>>, sipm_adc_to_pes |-> <<4, 0>>,
            coeff_c |-> <<1, 2>>, coeff_blr |-> <<3, 4>>,
            noise_rms |-> <<1, 3>>, X |-> <<-2, 2>>, Y |-> <<1, 3>>]

DataPMT(run_number) ==
    LET db == Database(run_number)
    IN  [adc_to_pes |-> db.pmt_adc_to_pes, coeff_c   |-> db.coeff_c,
         coeff_blr  |-> db.coeff_blr,      noise_rms |-> db.noise_rms]

DataSiPM(run_number) ==
    LET db == Database(run_number)
    IN  [X |-> db.X, Y |-> db.Y, adc_to_pes |-> db.sipm_adc_to_pes]

\* self.adc_to_pes = abs(DataPMT.adc_to_pes.values).astype(np.double)
NoSignNormalization(pmt) == pmt.adc_to_pes
load_adc_to_pes(pmt) == AbsArray(pmt.adc_to_pes)

----------------------------------------------------------------------------
(* Inputs *)

RunNumbers == {-5, 0, 1}

DefaultNprint      == 10000
DefaultSetNprint   == 1000
DefaultCompression == "ZLIB4"
DefaultNBaseline   == 28000
DefaultThrTrigger  == 5
DefaultNMAUSipm    == 100
DefaultThrSipm     == 5
DefaultThrSipmS2   == 30

NprintArgs      == {DefaultSetNprint}
FileArgs        == {"run.h5"}
CompressionArgs == {"ZLIB1"}
\* <<n_baseline, thr_trigger>>
BlrArgs  == {<<200, 7>>}
\* <<n_MAU, thr_MAU, thr_csum_s1, thr_csum_s2>>
CsumArgs == {<<100, 3, 1, 2>>, <<50, 4, 6, 8>>}
\* <<n_MAU_sipm, thr_sipm>>
SipmArgs == {<<60, 9>>}

P1   == S12Params(0, 6, 1, 2, 3, 1)
P2   == S12Params(1, 4, 2, 2, 3, 2)
\* inverted bounds, stride and rebin not positive
Pbad == S12Params(3, 1, 0, 3, 1, 0)

\* <<s1_params, s2_params, thr_sipm_s2>>
PmapArgs == {<<P1, P2, DefaultThrSipmS2>>, <<P2, P1, 20>>, <<Pbad, P1, 20>>}

\* The waveforms handed to the stages whose numerics are external.
RWFs   == {<<<<3, 9, 3>>, <<4, 4, 4>>>>}
CWFs   == {<<<<0, 6, 0>>, <<1, 1, 1>>>>}
SiRWFs == {<<<<2, 8, 2>>, <<5, 5, 1>>>>}

----------------------------------------------------------------------------
(* Construction *)

\* City.__init__
City_init(run_number, files_in, file_out, compression, nprint) ==
    [run_number      |-> run_number,
     nprint          |-> nprint,
     input_files     |-> files_in,
     output_file     |-> file_out,
     compression     |-> compression,
     xs              |-> DataSiPM(run_number).X,
     ys              |-> DataSiPM(run_number).Y,
     adc_to_pes      |-> load_adc_to_pes(DataPMT(run_number)),
     sipm_adc_to_pes |-> DataSiPM(run_number).adc_to_pes,
     coeff_c         |-> DataPMT(run_number).coeff_c,
     coeff_blr       |-> DataPMT(run_number).coeff_blr,
     noise_rms       |-> DataPMT(run_number).noise_rms]

\* DeconvolutionCity.__init__ adds the BLR parameters.
DeconvolutionCity_init(blr) ==
    [n_baseline |-> blr[1], thr_trigger |-> blr[2]]

\* CalibratedCity.__init__ adds the csum and the SiPM parameters.
CalibratedCity_init(csum, sipm) ==
    [n_MAU       |-> csum[1], thr_MAU     |-> csum[2],
     thr_csum_s1 |-> csum[3], thr_csum_s2 |-> csum[4],
     n_MAU_sipm  |-> sipm[1], thr_sipm    |-> sipm[2]]

\* PmapCity.__init__ adds the peak search parameters.
PmapCity_init(pmap) ==
    [s1_params |-> pmap[1], s2_params |-> pmap[2], thr_sipm_s2 |-> pmap[3]]

\* r @@ s for records, without the TLC module.
Merge(r, s) ==
    [k \in DOMAIN r \cup DOMAIN s |-> IF k \in DOMAIN r THEN r[k] ELSE s[k]]

\* The PmapCity constructor with its defaults for all but run_number, the
\* csum parameters and the peak search parameters.
PmapCity(run_number, csum, pmap) ==
    Merge(Merge(City_init(run_number, NoFile, NoFile,
                          DefaultCompression, DefaultNprint),
                DeconvolutionCity_init(<<DefaultNBaseline, DefaultThrTrigger>>)),
          Merge(CalibratedCity_init(csum, <<DefaultNMAUSipm, DefaultThrSipm>>),
                PmapCity_init(pmap)))

\* The parameter attributes: everything a setter or the constructor is given.
ParamNames ==
    {"nprint", "input_files", "output_file", "compression",
     "n_baseline", "thr_trigger", "n_MAU", "thr_MAU", "thr_csum_s1",
     "thr_csum_s2", "n_MAU_sipm", "thr_sipm", "s1_params", "s2_params",
     "thr_sipm_s2"}

\* The Calibration Context.
CalibNames ==
    {"xs", "ys", "adc_to_pes", "sipm_adc_to_pes", "coeff_c", "coeff_blr",
     "noise_rms"}

\* What the constructor was given, per parameter.
GivenAtInit(csum, pmap) ==
    [nprint      |-> DefaultNprint,      input_files |-> NoFile,
     output_file |-> NoFile,             compression |-> DefaultCompression,
     n_baseline  |-> DefaultNBaseline,   thr_trigger |-> DefaultThrTrigger,
     n_MAU       |-> csum[1],            thr_MAU     |-> csum[2],
     thr_csum_s1 |-> csum[3],            thr_csum_s2 |-> csum[4],
     n_MAU_sipm  |-> DefaultNMAUSipm,    thr_sipm    |-> DefaultThrSipm,
     s1_params   |-> pmap[1],            s2_params   |-> pmap[2],
     thr_sipm_s2 |-> pmap[3]]

NoCall == [op |-> "__init__", args |-> <<>>, calls |-> <<>>,
           ret |-> None, raised |-> "no"]

\* A method call that returned.
Returned(op, args, calls, ret) ==
    [op |-> op, args |-> args, calls |-> calls, ret |-> ret, raised |-> "no"]

\* A method call that raised.
Raised(op, args, calls, error) ==
    [op |-> op, args |-> args, calls |-> calls, ret |-> None, raised |-> error]

Events == {"e1", "e2"}

InitCity(runs, csumArgs, pmapArgs) ==
    \E run_number \in runs, csum \in csumArgs, pmap \in pmapArgs :
        /\ self  = PmapCity(run_number, csum, pmap)
        /\ given = GivenAtInit(csum, pmap)
        /\ last  = NoCall

\* The waveforms of an event: the raw ones, and the ones the external
\* numerics make of them along the chain.
EventData ==
    { [RWF    |-> <<<<3, 9, 3>>, <<4, 4, 4>>>>,
       CWF    |-> <<<<0, 6, 0>>, <<1, 1, 1>>>>,
       csum   |-> <<0, 3, 7, 9, 1, 0, 4>>,
       SiRWF  |-> <<<<2, 8, 2>>, <<5, 5, 1>>>>,
       sipmzs |-> <<<<0, 20, 20, 0>>, <<0, 0, 20, 0>>>>],
      [RWF    |-> <<<<5, 5, 8>>, <<2, 6, 2>>>>,
       CWF    |-> <<<<0, 0, 3>>, <<0, 4, 0>>>>,
       csum   |-> <<9, 9, 0, 3, 3, 3, 0>>,
       SiRWF  |-> <<<<1, 1, 7>>, <<3, 9, 3>>>>,
       sipmzs |-> <<<<0, 0, 0, 40>>, <<20, 20, 0, 0>>>>] }

NoData == CHOOSE d \in EventData : TRUE

NoEvents ==
    /\ raw  = [e \in Events |-> NoData]
    /\ done = [e \in Events |-> {}]
    /\ out  = [e \in Events |-> <<>>]

Init ==
    /\ InitCity(RunNumbers, CsumArgs, {<<None, None, DefaultThrSipmS2>>})
    /\ NoEvents

----------------------------------------------------------------------------
(* City *)

\* @property monte_carlo
monte_carlo_strict == self.run_number < 0
monte_carlo == self.run_number <= 0

\* Reading the property.
get_monte_carlo ==
    /\ last' = Returned("monte_carlo", <<>>, <<>>, monte_carlo)
    /\ UNCHANGED <<self, given>>

set_print(nprint) ==
    /\ self'  = [self EXCEPT !.nprint = nprint]
    /\ given' = [given EXCEPT !.nprint = nprint]
    /\ last'  = Returned("set_print", <<nprint>>, <<>>, None)

set_input_files(input_files) ==
    /\ self'  = [self EXCEPT !.input_files = input_files]
    /\ given' = [given EXCEPT !.input_files = input_files]
    /\ last'  = Returned("set_input_files", <<input_files>>, <<>>, None)

set_output_file(output_file) ==
    /\ self'  = [self EXCEPT !.output_file = output_file]
    /\ given' = [given EXCEPT !.output_file = output_file]
    /\ last'  = Returned("set_output_file", <<output_file>>, <<>>, None)

set_compression(compression) ==
    /\ self'  = [self EXCEPT !.compression = compression]
    /\ given' = [given EXCEPT !.compression = compression]
    /\ last'  = Returned("set_compression", <<compression>>, <<>>, None)

----------------------------------------------------------------------------
(* DeconvolutionCity *)

set_blr(n_baseline, thr_trigger) ==
    /\ self'  = [self EXCEPT !.n_baseline  = n_baseline,
                             !.thr_trigger = thr_trigger]
    /\ given' = [given EXCEPT !.n_baseline  = n_baseline,
                              !.thr_trigger = thr_trigger]
    /\ last'  = Returned("set_blr", <<n_baseline, thr_trigger>>, <<>>, None)

\* A call of an external primitive: positional and keyword arguments.
Call(fn, args, kw) == [fn |-> fn, args |-> args, kw |-> kw]

\* The value of a primitive whose numerics are external: a pure function of
\* its arguments, kept as the application itself.
ValueOf(call) == [value_of |-> call]

deconv_pmt_call(RWF) ==
    Call("blr.deconv_pmt", <<RWF, self.coeff_c, self.coeff_blr>>,
         [n_baseline |-> self.n_baseline, thr_trigger |-> self.thr_trigger])

deconv_pmt(RWF) ==
    /\ last' = Returned("deconv_pmt", <<RWF>>, <<deconv_pmt_call(RWF)>>,
                        ValueOf(deconv_pmt_call(RWF)))
    /\ UNCHANGED <<self, given>>

----------------------------------------------------------------------------
(* CalibratedCity *)

set_csum_swapped(n_MAU, thr_MAU, thr_csum_s1, thr_csum_s2) ==
    /\ self'  = [self EXCEPT !.n_MAU       = n_MAU,
                             !.thr_MAU     = thr_MAU,
                             !.thr_csum_s1 = thr_csum_s2,
                             !.thr_csum_s2 = thr_csum_s1]
    /\ given' = [given EXCEPT !.n_MAU       = n_MAU,
                              !.thr_MAU     = thr_MAU,
                              !.thr_csum_s1 = thr_csum_s1,
                              !.thr_csum_s2 = thr_csum_s2]
    /\ last'  = Returned("set_csum",
                         <<n_MAU, thr_MAU, thr_csum_s1, thr_csum_s2>>,
                         <<>>, None)

set_csum(n_MAU, thr_MAU, thr_csum_s1, thr_csum_s2) ==
    /\ self'  = [self EXCEPT !.n_MAU       = n_MAU,
                             !.thr_MAU     = thr_MAU,
                             !.thr_csum_s1 = thr_csum_s1,
                             !.thr_csum_s2 = thr_csum_s2]
    /\ given' = [given EXCEPT !.n_MAU       = n_MAU,
                              !.thr_MAU     = thr_MAU,
                              !.thr_csum_s1 = thr_csum_s1,
                              !.thr_csum_s2 = thr_csum_s2]
    /\ last'  = Returned("set_csum",
                         <<n_MAU, thr_MAU, thr_csum_s1, thr_csum_s2>>,
                         <<>>, None)

set_sipm_writes_gain(n_MAU_sipm, thr_sipm) ==
    /\ self'  = [self EXCEPT !.sipm_adc_to_pes =
                                 [i \in DOMAIN @ |-> thr_sipm],
                             !.n_MAU_sipm = n_MAU_sipm]
    /\ given' = [given EXCEPT !.thr_sipm   = thr_sipm,
                              !.n_MAU_sipm = n_MAU_sipm]
    /\ last'  = Returned("set_sipm", <<n_MAU_sipm, thr_sipm>>, <<>>, None)

set_sipm(n_MAU_sipm, thr_sipm) ==
    /\ self'  = [self EXCEPT !.thr_sipm   = thr_sipm,
                             !.n_MAU_sipm = n_MAU_sipm]
    /\ given' = [given EXCEPT !.thr_sipm   = thr_sipm,
                              !.n_MAU_sipm = n_MAU_sipm]
    /\ last'  = Returned("set_sipm", <<n_MAU_sipm, thr_sipm>>, <<>>, None)

calibrated_pmt_sum_call(CWF) ==
    Call("cpf.calibrated_pmt_sum", <<CWF, self.adc_to_pes>>,
         [n_MAU |-> self.n_MAU, thr_MAU |-> self.thr_MAU])

calibrated_pmt_sum_retains(CWF) ==
    /\ last' = Returned("calibrated_pmt_sum", <<CWF>>,
                        <<calibrated_pmt_sum_call(CWF)>>,
                        ValueOf(calibrated_pmt_sum_call(CWF)))
    /\ self' = [self EXCEPT !.n_MAU = Len(CWF[1])]
    /\ UNCHANGED given

calibrated_pmt_sum(CWF) ==
    /\ last' = Returned("calibrated_pmt_sum", <<CWF>>,
                        <<calibrated_pmt_sum_call(CWF)>>,
                        ValueOf(calibrated_pmt_sum_call(CWF)))
    /\ UNCHANGED <<self, given>>

calibrated_signal_sipm_call(SiRWF) ==
    Call("cpf.signal_sipm", <<SiRWF, self.sipm_adc_to_pes>>,
         [thr |-> self.thr_sipm, n_MAU |-> self.n_MAU_sipm])

calibrated_signal_sipm(SiRWF) ==
    /\ last' = Returned("calibrated_signal_sipm", <<SiRWF>>,
                        <<calibrated_signal_sipm_call(SiRWF)>>,
                        ValueOf(calibrated_signal_sipm_call(SiRWF)))
    /\ UNCHANGED <<self, given>>

\* cpf.wfzs: the samples above the threshold with their 0-based indices.
wfzs(signal, threshold) ==
    LET positions == SelectSeq([i \in 1..Len(signal) |-> i],
                               LAMBDA i : signal[i] > threshold)
    IN  [ene  |-> [j \in 1..Len(positions) |-> signal[positions[j]]],
         indx |-> [j \in 1..Len(positions) |-> positions[j] - 1]]

csum_zs_call_own_threshold(csum, threshold) ==
    Call("cpf.wfzs", <<csum>>, [threshold |-> self.thr_csum_s1])

csum_zs_call(csum, threshold) ==
    Call("cpf.wfzs", <<csum>>, [threshold |-> threshold])

csum_zs(csum, threshold) ==
    /\ last' = Returned("csum_zs", <<csum, threshold>>,
                        <<csum_zs_call(csum, threshold)>>,
                        wfzs(csum_zs_call(csum, threshold).args[1],
                             csum_zs_call(csum, threshold).kw.threshold))
    /\ UNCHANGED <<self, given>>

----------------------------------------------------------------------------
(* The peak search and sensor mapping primitives *)

\* The sample period, in the time unit of tmin and tmax.
SamplePeriod == 1

time_from_index(i) == i * SamplePeriod

\* The peak search state machine over the zero-suppressed stream: `cur` is
\* the run being accumulated (empty outside a peak), `closed` the runs
\* closed so far, each run a sequence of <<index, amplitude>>.
RECURSIVE ScanRuns(_, _, _, _, _, _)
ScanRuns(ene, indx, p, i, cur, closed) ==
    LET flush == IF cur = <<>> THEN closed ELSE Append(closed, cur)
    IN  IF i > Len(indx) THEN flush
        ELSE IF time_from_index(indx[i]) > p.tmax THEN flush
        ELSE IF time_from_index(indx[i]) < p.tmin
             THEN ScanRuns(ene, indx, p, i + 1, cur, closed)
        ELSE IF cur = <<>>
             THEN ScanRuns(ene, indx, p, i + 1, <<<<indx[i], ene[i]>>>>, closed)
        ELSE IF indx[i] - cur[Len(cur)][1] > p.stride
             THEN ScanRuns(ene, indx, p, i + 1, <<<<indx[i], ene[i]>>>>, flush)
        ELSE ScanRuns(ene, indx, p, i + 1,
                      Append(cur, <<indx[i], ene[i]>>), closed)

\* A closed run is a peak when its sample count is within the length bounds.
AcceptRun(run, p) == p.lmin <= Len(run) /\ Len(run) <= p.lmax

RECURSIVE SumAmp(_, _, _)
SumAmp(run, from, to) ==
    IF from > to THEN 0 ELSE run[from][2] + SumAmp(run, from + 1, to)

Min(a, b) == IF a < b THEN a ELSE b

\* The samples of a peak: <<time, amplitude>>, every `rebin` consecutive
\* samples merged into one at the time of the first (no merging for a
\* factor below 2).
Rebin(run, rebin) ==
    IF rebin < 2
    THEN [j \in 1..Len(run) |-> <<time_from_index(run[j][1]), run[j][2]>>]
    ELSE [g \in 1..((Len(run) + rebin - 1) \div rebin) |->
             <<time_from_index(run[(g - 1) * rebin + 1][1]),
               SumAmp(run, (g - 1) * rebin + 1, Min(g * rebin, Len(run)))>>]

\* cpf.find_S12: the accepted runs, in order, as peaks.
cpf_find_S12(ene, indx, p) ==
    LET peaks == SelectSeq(ScanRuns(ene, indx, p, 1, <<>>, <<>>),
                           LAMBDA run : AcceptRun(run, p))
    IN  [k \in 1..Len(peaks) |-> Rebin(peaks[k], p.rebin)]

\* cpf.select_sipm: the sensors (0-based) with any signal, with their
\* waveforms.
select_sipm(sipmzs) ==
    [s \in {k \in 0..(Len(sipmzs) - 1) :
               \E j \in 1..Len(sipmzs[k + 1]) : sipmzs[k + 1][j] # 0}
        |-> sipmzs[s + 1]]

RECURSIVE SumWindow(_, _, _, _)
SumWindow(wf, j, tfirst, tlast) ==
    IF j > Len(wf) THEN 0
    ELSE (IF tfirst <= time_from_index(j - 1) /\ time_from_index(j - 1) <= tlast
          THEN wf[j] ELSE 0) + SumWindow(wf, j + 1, tfirst, tlast)

\* A sensor's amplitude summed over the time window of a peak.
SensorCharge(wf, peak) == SumWindow(wf, 1, peak[1][1], peak[Len(peak)][1])

\* pmp.sipm_s2_dict: per peak, the sensors whose charge within the peak
\* exceeds thr, with that charge.
sipm_s2_dict(SIPM, S2, thr) ==
    [k \in 1..Len(S2) |->
        [s \in {x \in DOMAIN SIPM : SensorCharge(SIPM[x], S2[k]) > thr}
            |-> SensorCharge(SIPM[s], S2[k])]]

----------------------------------------------------------------------------
(* PmapCity *)

set_pmap_params(s1_params, s2_params, thr_sipm_s2) ==
    /\ self'  = [self EXCEPT !.s1_params   = s1_params,
                             !.s2_params   = s2_params,
                             !.thr_sipm_s2 = thr_sipm_s2]
    /\ given' = [given EXCEPT !.s1_params   = s1_params,
                              !.s2_params   = s2_params,
                              !.thr_sipm_s2 = thr_sipm_s2]
    /\ last'  = Returned("set_pmap_params",
                         <<s1_params, s2_params, thr_sipm_s2>>, <<>>, None)

\* **self.s1_params._asdict()
S1_kwargs == self.s1_params

\* **self.s2_params._asdict()
S2_kwargs_from_s1 == self.s1_params
S2_kwargs == self.s2_params

find_S12(s1_ene, s1_indx, s2_ene, s2_indx) ==
    LET args  == <<s1_ene, s1_indx, s2_ene, s2_indx>>
        call1 == Call("cpf.find_S12", <<s1_ene, s1_indx>>, S1_kwargs)
        call2 == Call("cpf.find_S12", <<s2_ene, s2_indx>>, S2_kwargs)
    IN  /\ last' =
             IF ~HasAsdict(S1_kwargs)
             THEN Raised("find_S12", args, <<>>, "AttributeError")
             ELSE IF ~HasAsdict(S2_kwargs)
             THEN Raised("find_S12", args, <<call1>>, "AttributeError")
             ELSE Returned("find_S12", args, <<call1, call2>>,
                           [S1 |-> cpf_find_S12(s1_ene, s1_indx, call1.kw),
                            S2 |-> cpf_find_S12(s2_ene, s2_indx, call2.kw)])
        /\ UNCHANGED <<self, given>>

S2Si_thr_of_sipm == self.thr_sipm
S2Si_thr == self.thr_sipm_s2

find_S2Si(S2, sipmzs) ==
    LET call1 == Call("cpf.select_sipm", <<sipmzs>>, <<>>)
        SIPM  == select_sipm(sipmzs)
        call2 == Call("pmp.sipm_s2_dict", <<SIPM, S2>>, [thr |-> S2Si_thr])
    IN  /\ last' = Returned("find_S2Si", <<S2, sipmzs>>, <<call1, call2>>,
                            sipm_s2_dict(SIPM, S2, call2.kw.thr))
        /\ UNCHANGED <<self, given>>

----------------------------------------------------------------------------
(* The city driven through its methods *)

\* Calibrated sums and thresholds handed to csum_zs.
Csums      == {<<0, 3, 5, 1>>, <<1, 1, 0, 2>>}
Thresholds == {0, 2}

\* Zero-suppressed signals handed to find_S12: <<S1 signal, S2 signal>>.
ZSPairs ==
    {<<wfzs(<<0, 3, 5, 1>>, 0), wfzs(<<1, 1, 0, 2>>, 0)>>,
     <<wfzs(<<1, 1, 0, 2>>, 0), wfzs(<<0, 3, 5, 1>>, 2)>>}

\* Peaks and calibrated SiPM signals handed to find_S2Si.
S2s     == {cpf_find_S12(z[1].ene, z[1].indx, P1) : z \in ZSPairs}
Sipmzs  == {<<<<0, 40, 0, 0>>, <<0, 20, 0, 0>>>>,
            <<<<20, 20, 0, 0>>, <<0, 0, 0, 0>>>>}

Next ==
    \/ get_monte_carlo /\ UNCHANGED events
    \/ \E nprint \in NprintArgs :
           set_print(nprint) /\ UNCHANGED events
    \/ \E f \in FileArgs :
           set_input_files(f) /\ UNCHANGED events
    \/ \E f \in FileArgs :
           set_output_file(f) /\ UNCHANGED events
    \/ \E c \in CompressionArgs :
           set_compression(c) /\ UNCHANGED events
    \/ \E a \in BlrArgs :
           set_blr(a[1], a[2]) /\ UNCHANGED events
    \/ \E a \in CsumArgs :
           set_csum(a[1], a[2], a[3], a[4]) /\ UNCHANGED events
    \/ \E a \in SipmArgs :
           set_sipm(a[1], a[2]) /\ UNCHANGED events
    \/ \E a \in PmapArgs :
           set_pmap_params(a[1], a[2], a[3]) /\ UNCHANGED events
    \/ \E RWF \in RWFs :
           deconv_pmt(RWF) /\ UNCHANGED events
    \/ \E CWF \in CWFs :
           calibrated_pmt_sum(CWF) /\ UNCHANGED events
    \/ \E csum \in Csums, threshold \in Thresholds :
           csum_zs(csum, threshold) /\ UNCHANGED events
    \/ \E SiRWF \in SiRWFs :
           calibrated_signal_sipm(SiRWF) /\ UNCHANGED events
    \/ \E z \in ZSPairs :
           find_S12(z[1].ene, z[1].indx, z[2].ene, z[2].indx)
               /\ UNCHANGED events
    \/ \E S2 \in S2s, sipmzs \in Sipmzs :
           find_S2Si(S2, sipmzs) /\ UNCHANGED events

Spec == Init /\ [][Next]_vars

----------------------------------------------------------------------------
(* Properties of the city driven through its methods *)

CalibrationContext == [k \in CalibNames |-> self[k]]

StageOps == {"deconv_pmt", "calibrated_pmt_sum", "csum_zs",
             "calibrated_signal_sipm", "find_S12", "find_S2Si"}

\* C1: the monte_carlo classification of a city is true exactly when its
\* run number is <= 0 (true for 0 and -5, false for 1), and reading it
\* changes no attribute of the city.
C1_MonteCarloClassification ==
    /\ [](last.op = "monte_carlo" =>
             /\ last.ret = (self.run_number <= 0)
             /\ self.run_number = 0  => last.ret = TRUE
             /\ self.run_number = -5 => last.ret = TRUE
             /\ self.run_number = 1  => last.ret = FALSE)
    /\ [][last'.op = "monte_carlo" => self' = self]_vars

C1_Witness ==
    /\ last.op = "monte_carlo"
    /\ self.run_number = 0
    /\ self.n_baseline # DefaultNBaseline

\* C2: in every reachable state every entry of adc_to_pes is non-negative.
C2_GainsNonNegative ==
    \A i \in DOMAIN self.adc_to_pes : self.adc_to_pes[i] >= 0

C2_Witness ==
    /\ \E i \in DOMAIN self.adc_to_pes :
           DataPMT(self.run_number).adc_to_pes[i] < 0
    /\ last.op = "calibrated_pmt_sum"
    /\ self.thr_sipm # DefaultThrSipm

\* C3: no setter and no stage call changes the Calibration Context.
C3_CalibrationReadOnly ==
    [][CalibrationContext' = CalibrationContext]_vars

C3_Witness ==
    /\ last.op = "find_S2Si"
    /\ self.nprint # DefaultNprint
    /\ self.input_files # NoFile
    /\ self.output_file # NoFile
    /\ self.compression # DefaultCompression
    /\ self.n_baseline # DefaultNBaseline
    /\ self.thr_sipm # DefaultThrSipm
    /\ self.s1_params # None
    /\ CalibrationContext =
           [k \in CalibNames |->
               PmapCity(self.run_number, <<0, 0, 0, 0>>, <<None, None, 0>>)[k]]

\* The invariants a Peak Search Parameters record is to satisfy.
ValidParams(p) ==
    /\ p # None
    /\ p.tmin <= p.tmax
    /\ p.lmin <= p.lmax
    /\ p.stride > 0
    /\ p.rebin > 0

\* C7: find_S12 is never reached in a state whose s1_params or s2_params
\* are unset or violate the parameter invariants (such parameters having
\* been refused at construction).
C7_FindS12OnlyWithValidParams ==
    last.op = "find_S12" =>
        ValidParams(self.s1_params) /\ ValidParams(self.s2_params)

\* The attributes each setter writes.
Writes(op) ==
    CASE op = "set_print"       -> {"nprint"}
      [] op = "set_input_files" -> {"input_files"}
      [] op = "set_output_file" -> {"output_file"}
      [] op = "set_compression" -> {"compression"}
      [] op = "set_blr"         -> {"n_baseline", "thr_trigger"}
      [] op = "set_csum"        -> {"n_MAU", "thr_MAU", "thr_csum_s1",
                                    "thr_csum_s2"}
      [] op = "set_sipm"        -> {"n_MAU_sipm", "thr_sipm"}
      [] op = "set_pmap_params" -> {"s1_params", "s2_params", "thr_sipm_s2"}
      [] OTHER                  -> {}

\* The parameters a returned stage call handed to its primitives are the
\* ones most recently given.
PassesGiven(call) ==
    CASE call.op = "deconv_pmt" ->
           call.calls[1].kw = [n_baseline  |-> given.n_baseline,
                               thr_trigger |-> given.thr_trigger]
      [] call.op = "calibrated_pmt_sum" ->
           call.calls[1].kw = [n_MAU |-> given.n_MAU, thr_MAU |-> given.thr_MAU]
      [] call.op = "calibrated_signal_sipm" ->
           call.calls[1].kw = [thr   |-> given.thr_sipm,
                               n_MAU |-> given.n_MAU_sipm]
      [] call.op = "find_S12" /\ call.raised = "no" ->
           /\ call.calls[1].kw = given.s1_params
           /\ call.calls[2].kw = given.s2_params
           /\ call.ret.S1 = cpf_find_S12(call.args[1], call.args[2],
                                         given.s1_params)
           /\ call.ret.S2 = cpf_find_S12(call.args[3], call.args[4],
                                         given.s2_params)
      [] call.op = "find_S2Si" ->
           call.calls[2].kw = [thr |-> given.thr_sipm_s2]
      [] call.op = "csum_zs" ->
           \* the threshold is the caller's argument, not an attribute
           call.calls[1].kw = [threshold |-> call.args[2]]
      [] OTHER -> TRUE

\* C10: each setter writes only its own fields, with the values it was
\* given, and a stage call hands its primitive the values most recently
\* given by a setter (or by the constructor if none); find_S12 searches S1
\* with s1_params and S2 with s2_params.
C10_SettersAndStagesUseOwnParams ==
    /\ [](\A k \in ParamNames : self[k] = given[k])
    /\ [](PassesGiven(last))
    /\ [][\A k \in DOMAIN self :
              k \notin Writes(last'.op) => self'[k] = self[k]]_vars

C10_Witness ==
    /\ last.op = "find_S12"
    /\ last.raised = "no"
    /\ given.s1_params = P2
    /\ given.s2_params = P1
    /\ last.ret.S1 # last.ret.S2
    /\ given.thr_csum_s1 = 6
    /\ given.n_baseline = 200

----------------------------------------------------------------------------
(* Zero suppression over every short signal *)

\* Signals of up to MaxLen samples with amplitudes 0..MaxAmp.
MaxLen == 3
MaxAmp == 2

Signals == UNION {[1..n -> 0..MaxAmp] : n \in 0..MaxLen}

InitZS ==
    /\ InitCity({0}, CsumArgs, {<<None, None, DefaultThrSipmS2>>})
    /\ NoEvents

NextZS ==
    \/ \E a \in CsumArgs :
           set_csum(a[1], a[2], a[3], a[4]) /\ UNCHANGED events
    \/ \E csum \in Signals, threshold \in 0..MaxAmp :
           csum_zs(csum, threshold) /\ UNCHANGED events

SpecZS == InitZS /\ [][NextZS]_vars

StrictlyIncreasing(seq) ==
    \A i \in 1..(Len(seq) - 1) : seq[i] < seq[i + 1]

\* C5: csum_zs returns parallel amplitude and index sequences, the indices
\* strictly increasing, every retained amplitude above the threshold, and
\* the empty pair (no error) when every sample is below the threshold.
C5_ZeroSuppression ==
    last.op = "csum_zs" =>
        LET csum      == last.args[1]
            threshold == last.args[2]
            ene       == last.ret.ene
            indx      == last.ret.indx
        IN  /\ last.raised = "no"
            /\ Len(ene) = Len(indx)
            /\ StrictlyIncreasing(indx)
            /\ \A j \in 1..Len(indx) :
                   /\ indx[j] \in 0..(Len(csum) - 1)
                   /\ ene[j] = csum[indx[j] + 1]
                   /\ ene[j] > threshold
            /\ (\A i \in 1..Len(csum) : csum[i] < threshold) =>
                   ene = <<>> /\ indx = <<>>

C5_Witness ==
    /\ last.op = "csum_zs"
    /\ Len(last.args[1]) = 3
    /\ last.ret.indx = <<0, 2>>
    /\ last.args[2] = 1
    /\ self.thr_csum_s1 # last.args[2]

C5_WitnessEmpty ==
    /\ last.op = "csum_zs"
    /\ Len(last.args[1]) = 3
    /\ last.args[2] = 2
    /\ \A i \in 1..3 : last.args[1][i] = 1
    /\ last.ret.ene = <<>>

----------------------------------------------------------------------------
(* Peak search over every short zero-suppressed stream *)

\* Calibrated sums of PeakLen samples; a sample survives or not.
PeakLen == 7

Reverse(seq) == [i \in 1..Len(seq) |-> seq[Len(seq) + 1 - i]]

PeakSums == [1..PeakLen -> {0, 1}]

InitPeaks ==
    /\ InitCity({1}, {<<100, 3, 1, 2>>}, {<<None, None, DefaultThrSipmS2>>})
    /\ NoEvents

NextPeaks ==
    \/ \E a \in PmapArgs :
           set_pmap_params(a[1], a[2], a[3]) /\ UNCHANGED events
    \/ \E csum \in PeakSums :
           find_S12(wfzs(csum, 0).ene, wfzs(csum, 0).indx,
                    wfzs(Reverse(csum), 0).ene, wfzs(Reverse(csum), 0).indx)
               /\ UNCHANGED events

SpecPeaks == InitPeaks /\ [][NextPeaks]_vars

\* The positions of the stream whose time lies in the search window.
InWindow(indx, p) ==
    {j \in 1..Len(indx) : /\ p.tmin <= indx[j] * SamplePeriod
                          /\ indx[j] * SamplePeriod <= p.tmax}

SetMin(S) == CHOOSE x \in S : \A y \in S : x <= y
SetMax(S) == CHOOSE x \in S : \A y \in S : x >= y

\* The closed runs, as sets of stream positions: the maximal sets of
\* consecutive in-window positions whose successive indices are at most
\* stride apart.
ClosedRuns(indx, p) ==
    LET W == InWindow(indx, p)
        linked(j) == j \in W /\ j + 1 \in W /\ indx[j + 1] - indx[j] <= p.stride
    IN  {R \in SUBSET W :
            /\ R # {}
            /\ R = SetMin(R)..SetMax(R)
            /\ \A j \in R \ {SetMax(R)} : linked(j)
            /\ ~linked(SetMin(R) - 1)
            /\ ~linked(SetMax(R))}

\* The peaks `peaks` are exactly the closed runs with lmin <= n <= lmax
\* samples, in stream order.
PeaksAreAcceptedRuns(peaks, indx, p) ==
    LET accepted == {R \in ClosedRuns(indx, p) :
                        p.lmin <= Cardinality(R) /\ Cardinality(R) <= p.lmax}
    IN  /\ Len(peaks) = Cardinality(accepted)
        /\ \A k \in 1..Len(peaks) :
               \E R \in accepted :
                   /\ Cardinality({Q \in accepted : SetMin(Q) < SetMin(R)}) = k - 1
                   /\ peaks[k][1][1] = indx[SetMin(R)] * SamplePeriod
                   /\ Len(peaks[k]) =
                          IF p.rebin < 2 THEN Cardinality(R)
                          ELSE (Cardinality(R) + p.rebin - 1) \div p.rebin

\* C4: a closed run of n samples becomes a peak of its class if and only if
\* lmin <= n <= lmax for the class's parameters (S1 under s1_params, S2
\* under s2_params); rejected runs raise no error.
C4_PeakLengthBounds ==
    (last.op = "find_S12" /\ HasAsdict(self.s1_params)
                          /\ HasAsdict(self.s2_params)) =>
        /\ last.raised = "no"
        /\ PeaksAreAcceptedRuns(last.ret.S1, last.args[2], self.s1_params)
        /\ PeaksAreAcceptedRuns(last.ret.S2, last.args[4], self.s2_params)

\* A stream whose S1 search closes a run of lmax + 1 samples (rejected) and
\* one of lmin samples (accepted), and whose S2 search closes a single run
\* of lmax samples (accepted).
C4_Witness ==
    /\ last.op = "find_S12"
    /\ last.raised = "no"
    /\ self.s1_params = P1
    /\ self.s2_params = P2
    /\ \E R \in ClosedRuns(last.args[2], P1) : Cardinality(R) = P1.lmax + 1
    /\ \E R \in ClosedRuns(last.args[2], P1) : Cardinality(R) = P1.lmin
    /\ \E R \in ClosedRuns(last.args[4], self.s2_params) :
           Cardinality(R) = self.s2_params.lmax
    /\ Len(last.ret.S1) = 1
    /\ Len(last.ret.S2) = 1

----------------------------------------------------------------------------
(* Sensor mapping over every short SiPM signal *)

\* Calibrated SiPM waveforms of SipmLen samples for two sensors; a sample
\* is zeroed or carries 20 pes.
SipmLen == 2

SipmSignals == [1..2 -> [1..SipmLen -> {0, 20}]]

\* Peaks over the same samples: every run of surviving samples.
EveryRun == S12Params(0, SipmLen, 1, 1, SipmLen, 1)

MapPeaks ==
    {cpf_find_S12(wfzs(w, 0).ene, wfzs(w, 0).indx, EveryRun) :
        w \in [1..SipmLen -> {0, 1}]}

InitMap ==
    /\ InitCity({-5}, {<<100, 3, 1, 2>>}, {<<None, None, DefaultThrSipmS2>>})
    /\ NoEvents

NextMap ==
    \/ \E a \in SipmArgs :
           set_sipm(a[1], a[2]) /\ UNCHANGED events
    \/ \E a \in {<<P2, P1, 20>>} :
           set_pmap_params(a[1], a[2], a[3]) /\ UNCHANGED events
    \/ \E S2 \in MapPeaks, sipmzs \in SipmSignals :
           find_S2Si(S2, sipmzs) /\ UNCHANGED events

SpecMap == InitMap /\ [][NextMap]_vars

RECURSIVE SumSet(_, _)
SumSet(f, S) ==
    IF S = {} THEN 0
    ELSE LET x == CHOOSE y \in S : TRUE IN f[x] + SumSet(f, S \ {x})

\* The amplitude of a sensor summed over the samples whose time lies
\* between the first and the last sample of the peak.
ChargeInPeak(wf, peak) ==
    SumSet(wf, {j \in 1..Len(wf) :
                   /\ peak[1][1] <= (j - 1) * SamplePeriod
                   /\ (j - 1) * SamplePeriod <= peak[Len(peak)][1]})

\* C6: a sensor is in the map of an S2 peak only if its amplitude summed
\* over the peak's window is strictly greater than thr_sipm_s2; charges 40
\* and 20 with threshold 30 keep only the first sensor; a peak with no
\* sensor above threshold gets an empty map.
C6_SensorMapThreshold ==
    last.op = "find_S2Si" =>
        LET S2     == last.args[1]
            sipmzs == last.args[2]
            S2Si   == last.ret
            charge(s, k) == ChargeInPeak(sipmzs[s + 1], S2[k])
        IN  /\ last.raised = "no"
            /\ Len(S2Si) = Len(S2)
            /\ \A k \in 1..Len(S2) :
                   /\ DOMAIN S2Si[k] \subseteq 0..(Len(sipmzs) - 1)
                   /\ \A s \in DOMAIN S2Si[k] :
                          /\ charge(s, k) > self.thr_sipm_s2
                          /\ S2Si[k][s] = charge(s, k)
                   /\ (/\ charge(0, k) = 40
                       /\ charge(1, k) = 20
                       /\ self.thr_sipm_s2 = 30) => DOMAIN S2Si[k] = {0}
                   /\ (\A s \in 0..(Len(sipmzs) - 1) :
                           charge(s, k) <= self.thr_sipm_s2) =>
                          DOMAIN S2Si[k] = {}

\* Charges 40 and 20 within the peak, threshold 30: only sensor 0 is kept.
C6_Witness ==
    /\ last.op = "find_S2Si"
    /\ self.thr_sipm_s2 = 30
    /\ self.thr_sipm # DefaultThrSipm
    /\ Len(last.args[1]) = 1
    /\ ChargeInPeak(last.args[2][1], last.args[1][1]) = 40
    /\ ChargeInPeak(last.args[2][2], last.args[1][1]) = 20
    /\ DOMAIN last.ret[1] = {0}

----------------------------------------------------------------------------
(* Events processed through the stages *)

Stages == {"deconv_pmt", "calibrated_pmt_sum", "csum_zs_s1", "csum_zs_s2",
           "calibrated_signal_sipm", "find_S12", "find_S2Si"}

\* The stages whose output a stage consumes: deconvolution feeds the
\* calibrated sum, which feeds zero suppression (once per signal class);
\* zero suppression and sensor calibration jointly feed the peak search,
\* whose S2 feeds the sensor mapping.
NeedsNothing(stage) == {}
Needs(stage) ==
    CASE stage = "deconv_pmt"             -> {}
      [] stage = "calibrated_pmt_sum"     -> {"deconv_pmt"}
      [] stage = "csum_zs_s1"             -> {"calibrated_pmt_sum"}
      [] stage = "csum_zs_s2"             -> {"calibrated_pmt_sum"}
      [] stage = "calibrated_signal_sipm" -> {}
      [] stage = "find_S12"               -> {"csum_zs_s1", "csum_zs_s2",
                                              "calibrated_signal_sipm"}
      [] stage = "find_S2Si"              -> {"find_S12",
                                              "calibrated_signal_sipm"}

CanRun(e, stage) == stage \notin done[e] /\ Needs(stage) \subseteq done[e]

\* The stage call just made becomes the event's record for the stage.
Record(e, stage) ==
    /\ done' = [done EXCEPT ![e] = @ \cup {stage}]
    /\ out'  = [out EXCEPT ![e] = Merge([k \in {stage} |-> last'], @)]
    /\ UNCHANGED raw

Process(e) ==
    \/ /\ CanRun(e, "deconv_pmt")
       /\ deconv_pmt(raw[e].RWF)
       /\ Record(e, "deconv_pmt")
    \/ /\ CanRun(e, "calibrated_pmt_sum")
       /\ calibrated_pmt_sum(raw[e].CWF)
       /\ Record(e, "calibrated_pmt_sum")
    \/ /\ CanRun(e, "csum_zs_s1")
       /\ csum_zs(raw[e].csum, self.thr_csum_s1)
       /\ Record(e, "csum_zs_s1")
    \/ /\ CanRun(e, "csum_zs_s2")
       /\ csum_zs(raw[e].csum, self.thr_csum_s2)
       /\ Record(e, "csum_zs_s2")
    \/ /\ CanRun(e, "calibrated_signal_sipm")
       /\ calibrated_signal_sipm(raw[e].SiRWF)
       /\ Record(e, "calibrated_signal_sipm")
    \/ /\ CanRun(e, "find_S12")
       /\ find_S12(out[e].csum_zs_s1.ret.ene, out[e].csum_zs_s1.ret.indx,
                   out[e].csum_zs_s2.ret.ene, out[e].csum_zs_s2.ret.indx)
       /\ Record(e, "find_S12")
    \/ /\ CanRun(e, "find_S2Si")
       /\ find_S2Si(out[e].find_S12.ret.S2, raw[e].sipmzs)
       /\ Record(e, "find_S2Si")

InitEvents ==
    /\ InitCity({0, 1}, CsumArgs, {<<P1, P2, DefaultThrSipmS2>>, <<P2, P1, 20>>})
    /\ raw \in [Events -> EventData]
    /\ done = [e \in Events |-> {}]
    /\ out  = [e \in Events |-> <<>>]

NextEvents == \E e \in Events : Process(e)

SpecEvents == InitEvents /\ [][NextEvents]_vars

Before(e, first, then) == then \in done[e] => first \in done[e]

C9_NoCrossEventRetention ==
    /\ [][(\E e \in Events : done'[e] # done[e]) => self' = self]_vars
    /\ [](\A e1, e2 \in Events :
             raw[e1] = raw[e2] =>
                 \A stage \in done[e1] \cap done[e2] :
                     /\ out[e1][stage].calls = out[e2][stage].calls
                     /\ out[e1][stage].ret = out[e2][stage].ret)

C9_Witness ==
    /\ raw["e1"] = raw["e2"]
    /\ done["e1"] = Stages
    /\ done["e2"] = Stages
    /\ last = out["e2"].find_S2Si
    /\ \E k \in DOMAIN last.ret : DOMAIN last.ret[k] # {}

====
